---- MODULE Spec2Model ----
(***************************************************************************)
(* Model of the provider abstraction and dispatch layer of llm_chat:       *)
(* the adapter constructors (src/llm/*.py), the dispatcher get_llm         *)
(* (src/llm/__init__.py), the tenacity retry wrapper of                    *)
(* CommonLLMChat.generate_response and the wire-format conversions.        *)
(*                                                                         *)
(* Strings that the code inspects character by character (model names)     *)
(* are sequences of one-character strings.  Temperatures are integers in   *)
(* thousandths (10 is 0.01, 700 is 0.7).                                   *)
(***************************************************************************)
EXTENDS Integers, Sequences, FiniteSets, TLC

\* ------------------------------------------------------------------------
\* Bounds of the model
\* ------------------------------------------------------------------------
MaxRetries == 2
MaxMessages == 2
MaxContent == 2
MaxItems == 3
MaxRest == 3
MaxBody == 3

\* ------------------------------------------------------------------------
\* Model names (character sequences)
\* ------------------------------------------------------------------------
\* "together:"
TogetherPrefix ==
  <<"t","o","g","e","t","h","e","r",":">>

\* "ollama:"
OllamaPrefix ==
  <<"o","l","l","a","m","a",":">>

\* "claude"
ClaudePrefix ==
  <<"c","l","a","u","d","e">>

\* "gemini-1.5-flash-002"
Gemini15Flash ==
  <<"g","e","m","i","n","i","-","1",".","5","-","f","l","a","s","h","-","0","0","2">>

\* "gemini-1.5-pro-002"
Gemini15Pro ==
  <<"g","e","m","i","n","i","-","1",".","5","-","p","r","o","-","0","0","2">>

\* "gemini-2.0-flash-exp"
Gemini20Flash ==
  <<"g","e","m","i","n","i","-","2",".","0","-","f","l","a","s","h","-","e","x","p">>

\* "gpt-4o-mini-2024-07-18"
Gpt4oMini ==
  <<"g","p","t","-","4","o","-","m","i","n","i","-","2","0","2","4","-","0","7","-","1","8">>

\* "gpt-4o-2024-11-20"
Gpt4o ==
  <<"g","p","t","-","4","o","-","2","0","2","4","-","1","1","-","2","0">>

\* "together:meta-llama/Meta-Llama-3.1-8B-Instruct-Turbo"
Together8B ==
  <<"t","o","g","e","t","h","e","r",":","m","e","t","a","-","l","l","a","m","a","/","M","e","t","a","-","L","l","a","m","a","-","3",".","1","-","8","B","-","I","n","s","t","r","u","c","t","-","T","u","r","b","o">>

\* "together:meta-llama/Meta-Llama-3.1-70B-Instruct-Turbo"
Together70B ==
  <<"t","o","g","e","t","h","e","r",":","m","e","t","a","-","l","l","a","m","a","/","M","e","t","a","-","L","l","a","m","a","-","3",".","1","-","7","0","B","-","I","n","s","t","r","u","c","t","-","T","u","r","b","o">>

\* "together:meta-llama/Meta-Llama-3.1-405B-Instruct-Turbo"
Together405B ==
  <<"t","o","g","e","t","h","e","r",":","m","e","t","a","-","l","l","a","m","a","/","M","e","t","a","-","L","l","a","m","a","-","3",".","1","-","4","0","5","B","-","I","n","s","t","r","u","c","t","-","T","u","r","b","o">>

\* "together:meta-llama/Llama-Vision-Free"
TogetherVisionFree ==
  <<"t","o","g","e","t","h","e","r",":","m","e","t","a","-","l","l","a","m","a","/","L","l","a","m","a","-","V","i","s","i","o","n","-","F","r","e","e">>

\* "meta-llama/Llama-3.1-8B-Instruct"
Llama31_8B ==
  <<"m","e","t","a","-","l","l","a","m","a","/","L","l","a","m","a","-","3",".","1","-","8","B","-","I","n","s","t","r","u","c","t">>

\* "meta-llama/Llama-3.2-3B-Instruct"
Llama32_3B ==
  <<"m","e","t","a","-","l","l","a","m","a","/","L","l","a","m","a","-","3",".","2","-","3","B","-","I","n","s","t","r","u","c","t">>

\* "meta-llama/Llama-3.2-11B-Vision-Instruct"
Llama32_11BVision ==
  <<"m","e","t","a","-","l","l","a","m","a","/","L","l","a","m","a","-","3",".","2","-","1","1","B","-","V","i","s","i","o","n","-","I","n","s","t","r","u","c","t">>

\* "claude-3-5-haiku-20241022"
ClaudeHaiku ==
  <<"c","l","a","u","d","e","-","3","-","5","-","h","a","i","k","u","-","2","0","2","4","1","0","2","2">>

\* "ollama:llama3"
OllamaLlama3 ==
  <<"o","l","l","a","m","a",":","l","l","a","m","a","3">>

\* "together:gemma"
TogetherUnlisted ==
  <<"t","o","g","e","t","h","e","r",":","g","e","m","m","a">>

\* "foo"
UnknownName ==
  <<"f","o","o">>

\* str.startswith
StartsWith(s, prefix) ==
  /\ Len(s) >= Len(prefix)
  /\ SubSeq(s, 1, Len(prefix)) = prefix

\* `x in list`
InList(x, list) ==
  \E i \in 1..Len(list) : list[i] = x

\* The identifiers the environment passes to the dispatcher and constructors.
ModelNames ==
  { Gemini15Flash, Gpt4o, TogetherVisionFree, Llama31_8B, ClaudeHaiku,
    OllamaLlama3, TogetherUnlisted, UnknownName }

\* ------------------------------------------------------------------------
\* Adapter families and their class attributes
\* ------------------------------------------------------------------------
Families ==
  {"Anthropic", "Gemini", "Huggingface", "Ollama", "OpenAI", "Together", "VLLM"}

\* LLMChat.SUPPORTED_LLM_NAMES, inherited by every class that does not
\* override it (AnthropicChat, OllamaChat set or inherit the empty list).
LLMChatSupported == << >>

OpenAISupported == << Gpt4oMini, Gpt4o >>

GeminiSupported == << Gemini15Flash, Gemini15Pro, Gemini20Flash >>

TogetherSupported == << Together8B, Together70B, Together405B, TogetherVisionFree >>

OllamaSupported == << >>

\* The local-runtime family's list.  get_llm reads it from the class it
\* imports as HuggingfaceChat from llm/hf.py; the class of that file
\* (HFLlamaChat) declares no list of its own, and the names are those of the
\* local family in llm.py (LocalLlamaChat.SUPPORTED_LLM_NAMES).
HuggingfaceSupported == << Llama31_8B, Llama32_3B, Llama32_11BVision >>

\* cls.SUPPORTED_LLM_NAMES as seen through the class hierarchy
SUPPORTED_LLM_NAMES(cls) ==
  CASE cls = "OpenAI" -> OpenAISupported
    [] cls = "VLLM" -> OpenAISupported
    [] cls = "Gemini" -> GeminiSupported
    [] cls = "Together" -> TogetherSupported
    [] cls = "Huggingface" -> HuggingfaceSupported
    [] cls = "Ollama" -> OllamaSupported
    [] cls = "Anthropic" -> LLMChatSupported

\* AnthropicChat.is_model_supported
is_model_supported(model_name) ==
  StartsWith(model_name, ClaudePrefix)

\* is_ollama_model: "model_name must start with 'ollama:'"
is_ollama_model(model_name) ==
  StartsWith(model_name, OllamaPrefix)

\* The support test each family declares for routing.
SupportTest(cls, model_name) ==
  CASE cls = "Anthropic" -> is_model_supported(model_name)
    [] cls = "Ollama" -> is_ollama_model(model_name)
    [] OTHER -> InList(model_name, SUPPORTED_LLM_NAMES(cls))

\* ------------------------------------------------------------------------
\* Keyword arguments
\* ------------------------------------------------------------------------
\* 0.01, the floor of the local runtime, in thousandths
TemperatureFloor == 10

\* Defaults of LLMChat.__init__
DefaultTemperature == 0
DefaultMaxRetries == 3
DefaultWaitSeconds == 2

Temperatures == {0, 5, 700}
RetryValues == 1..MaxRetries
WaitValues == {1}

KwargKeys == {"temperature", "max_retries", "wait_seconds"}

KwargValues(k) ==
  CASE k = "temperature" -> Temperatures
    [] k = "max_retries" -> RetryValues
    [] k = "wait_seconds" -> WaitValues

\* Every dict the caller can pass as model_kwargs
ModelKwargs ==
  UNION { { kw \in [D -> Temperatures \cup RetryValues \cup WaitValues] :
              \A k \in D : kw[k] \in KwargValues(k) } : D \in SUBSET KwargKeys }

NoKwargs == [k \in {} |-> 0]

\* dict.get(key, default)
Get(kw, key, default) ==
  IF key \in DOMAIN kw THEN kw[key] ELSE default

\* The keyword parameters each __init__ declares besides model_name
InitKeywords(cls) ==
  IF cls \in {"OpenAI", "Together"}
  THEN {"model_path", "max_tokens", "temperature", "seed", "max_retries", "wait_seconds"}
  ELSE {"model_path", "max_tokens", "temperature", "seed"}

\* ------------------------------------------------------------------------
\* Constructors.  Each returns [err, llm, effects]: the exception raised
\* ("none" when construction succeeds), the instance, and the credential
\* reads and client constructions it performed, in order.
\* ------------------------------------------------------------------------
NoAdapter ==
  [family |-> "None", model_name |-> << >>, temperature |-> 0,
   max_retries |-> 0, wait_seconds |-> 0, client |-> "None"]

Raise(exc) ==
  [err |-> exc, llm |-> NoAdapter, effects |-> << >>]

\* Variant: LLMChat.__init__ without the assertion on model_name
LLMChatInitUnchecked(cls, model_name, temperature, max_retries, wait_seconds) ==
  [err |-> "none",
   llm |-> [family |-> cls, model_name |-> model_name,
            temperature |-> temperature, max_retries |-> max_retries,
            wait_seconds |-> wait_seconds, client |-> "None"],
   effects |-> << >>]

\* LLMChat.__init__
LLMChatInit(cls, model_name, temperature, max_retries, wait_seconds) ==
  IF ~ InList(model_name, SUPPORTED_LLM_NAMES(cls))
  THEN Raise("AssertionError")
  ELSE [err |-> "none",
        llm |-> [family |-> cls, model_name |-> model_name,
                 temperature |-> temperature, max_retries |-> max_retries,
                 wait_seconds |-> wait_seconds, client |-> "None"],
        effects |-> << >>]

\* CommonLLMChat.__init__: super().__init__ and self.client = None
CommonLLMChatInit(cls, model_name, temperature, max_retries, wait_seconds) ==
  LLMChatInit(cls, model_name, temperature, max_retries, wait_seconds)

\* self.client = <client>, after the reads and constructions in `events`
WithClient(base, client, events) ==
  IF base.err # "none" THEN base
  ELSE [err |-> "none",
        llm |-> [base.llm EXCEPT !.client = client],
        effects |-> base.effects \o events]

\* OpenAIChat.__init__
OpenAIChatInit(cls, model_name, kw) ==
  WithClient(CommonLLMChatInit(cls, model_name,
                 Get(kw, "temperature", DefaultTemperature),
                 Get(kw, "max_retries", DefaultMaxRetries),
                 Get(kw, "wait_seconds", DefaultWaitSeconds)),
             "openai.OpenAI",
             << "getenv OPENAI_API_KEY", "openai.OpenAI" >>)

\* VLLMChat.__init__: OpenAIChat.__init__ without the retry arguments, then a
\* second client for the local server
VLLMChatInit(cls, model_name, kw) ==
  WithClient(OpenAIChatInit(cls, model_name,
                 [k \in DOMAIN kw \cap {"temperature"} |-> kw[k]]),
             "openai.OpenAI localhost:8000",
             << "openai.OpenAI localhost:8000" >>)

\* AnthropicChat.__init__
AnthropicChatInit(cls, model_name, kw) ==
  WithClient(CommonLLMChatInit(cls, model_name,
                 Get(kw, "temperature", DefaultTemperature),
                 DefaultMaxRetries, DefaultWaitSeconds),
             "anthropic.Anthropic",
             << "getenv ANTHROPIC_API_KEY", "anthropic.Anthropic" >>)

\* GeminiChat.__init__
GeminiChatInit(cls, model_name, kw) ==
  WithClient(CommonLLMChatInit(cls, model_name,
                 Get(kw, "temperature", DefaultTemperature),
                 DefaultMaxRetries, DefaultWaitSeconds),
             "gemini.GenerativeModel",
             << "getenv GEMINI_API_KEY", "gemini.GenerativeModel" >>)

\* TogetherChat.__init__
TogetherChatInit(cls, model_name, kw) ==
  IF ~ StartsWith(model_name, TogetherPrefix)
  THEN Raise("AssertionError")
  ELSE WithClient(CommonLLMChatInit(cls, model_name,
                      Get(kw, "temperature", DefaultTemperature),
                      Get(kw, "max_retries", DefaultMaxRetries),
                      Get(kw, "wait_seconds", DefaultWaitSeconds)),
                  "together.Together",
                  << "getenv TOGETHER_API_KEY", "together.Together" >>)

\* OllamaChat.__init__
OllamaChatInit(cls, model_name, kw) ==
  IF ~ is_ollama_model(model_name)
  THEN Raise("AssertionError")
  ELSE WithClient(CommonLLMChatInit(cls, model_name,
                      Get(kw, "temperature", DefaultTemperature),
                      DefaultMaxRetries, DefaultWaitSeconds),
                  "ollama.Client",
                  << "ollama.Client" >>)

\* HFLlamaChat.__init__: the model and the processor are loaded after
\* LLMChat.__init__
HFLlamaChatInit(cls, model_name, kw) ==
  WithClient(LLMChatInit(cls, model_name,
                 Get(kw, "temperature", DefaultTemperature),
                 DefaultMaxRetries, DefaultWaitSeconds),
             "MllamaForConditionalGeneration",
             << "MllamaForConditionalGeneration.from_pretrained",
                "AutoProcessor.from_pretrained" >>)

\* The call cls(model_name=model_name, **kw): a keyword the signature does
\* not declare is a TypeError raised before the body runs.
New(cls, model_name, kw) ==
  IF ~ (DOMAIN kw \subseteq InitKeywords(cls)) THEN Raise("TypeError")
  ELSE CASE cls = "OpenAI" -> OpenAIChatInit(cls, model_name, kw)
         [] cls = "VLLM" -> VLLMChatInit(cls, model_name, kw)
         [] cls = "Anthropic" -> AnthropicChatInit(cls, model_name, kw)
         [] cls = "Gemini" -> GeminiChatInit(cls, model_name, kw)
         [] cls = "Together" -> TogetherChatInit(cls, model_name, kw)
         [] cls = "Ollama" -> OllamaChatInit(cls, model_name, kw)
         [] cls = "Huggingface" -> HFLlamaChatInit(cls, model_name, kw)

\* ------------------------------------------------------------------------
\* The dispatcher
\* ------------------------------------------------------------------------
\* Variant: the floor applied as a ceiling (min in place of max)
FloorTemperatureMin(model_kwargs) ==
  IF "temperature" \in DOMAIN model_kwargs
  THEN [model_kwargs EXCEPT !["temperature"] =
          IF @ > TemperatureFloor THEN TemperatureFloor ELSE @]
  ELSE model_kwargs

\* Variant: the floor written also when the caller gave no temperature
FloorTemperatureSetsDefault(model_kwargs) ==
  [k \in DOMAIN model_kwargs \cup {"temperature"} |->
     IF k # "temperature" THEN model_kwargs[k]
     ELSE IF "temperature" \in DOMAIN model_kwargs
             /\ model_kwargs["temperature"] >= TemperatureFloor
          THEN model_kwargs["temperature"]
          ELSE TemperatureFloor]

\* model_kwargs["temperature"] = max(0.01, model_kwargs["temperature"])
FloorTemperature(model_kwargs) ==
  IF "temperature" \in DOMAIN model_kwargs
  THEN [model_kwargs EXCEPT !["temperature"] =
          IF @ < TemperatureFloor THEN TemperatureFloor ELSE @]
  ELSE model_kwargs

\* The result of get_llm: the family whose constructor was called ("None"
\* when no case body ran), the kwargs that reached it, the caller's dict as
\* get_llm left it, and the constructor's outcome.
Dispatch(family, model_name, ctor_kwargs) ==
  [family |-> family, ctor_kwargs |-> ctor_kwargs, model_kwargs |-> ctor_kwargs,
   out |-> New(family, model_name, ctor_kwargs)]

NoDispatch(model_kwargs, exc) ==
  [family |-> "None", ctor_kwargs |-> NoKwargs, model_kwargs |-> model_kwargs,
   out |-> Raise(exc)]

\* The names that are bound to classes in llm/__init__.py
ClassNames ==
  {"AnthropicChat", "GeminiChat", "HuggingfaceChat", "OllamaChat",
   "OpenAIChat", "TogetherChat", "LLMChat"}

\* A class pattern `callee(subpattern)` applied to a str subject: a callee
\* that is not a class raises TypeError ("called match pattern must be a
\* class") when the case is evaluated; a str is an instance of no adapter
\* class, so a class callee does not match.
ClassPattern(callee) ==
  IF callee \in ClassNames THEN "no match" ELSE "TypeError"

\* get_llm
get_llm(model_name, model_kwargs) ==
  IF InList(model_name, SUPPORTED_LLM_NAMES("Anthropic"))
  THEN Dispatch("Anthropic", model_name, model_kwargs)
  ELSE IF InList(model_name, SUPPORTED_LLM_NAMES("Gemini"))
  THEN Dispatch("Gemini", model_name, model_kwargs)
  ELSE IF InList(model_name, SUPPORTED_LLM_NAMES("Huggingface"))
  THEN Dispatch("Huggingface", model_name, FloorTemperature(model_kwargs))
  ELSE IF ClassPattern("is_ollama_model") = "TypeError"
  THEN NoDispatch(model_kwargs, "TypeError")
  ELSE IF ClassPattern("is_ollama_model") = "match"
  THEN Dispatch("Ollama", model_name, model_kwargs)
  ELSE IF InList(model_name, SUPPORTED_LLM_NAMES("OpenAI"))
  THEN Dispatch("OpenAI", model_name, model_kwargs)
  ELSE IF InList(model_name, SUPPORTED_LLM_NAMES("Together"))
  THEN Dispatch("Together", model_name, model_kwargs)
  ELSE NoDispatch(model_kwargs, "ValueError")

\* ------------------------------------------------------------------------
\* Conversations
\* ------------------------------------------------------------------------
Roles == {"user", "assistant"}

Texts == {"Hello!", "Hi"}

\* An image is its pixel buffer; pixels are small integers.
Images == { <<1>>, <<2>> }

ContentTextMessage(text) == [type |-> "text", text |-> text]

ContentImageMessage(image) == [type |-> "image", image |-> image]

Contents ==
  {ContentTextMessage(t) : t \in Texts} \cup {ContentImageMessage(i) : i \in Images}

\* Message: content is non-empty for any message sent to an adapter
MessagesOfSize(n) ==
  { [role |-> r, content |-> c] : r \in Roles, c \in [1..n -> Contents] }

Conversation(messages) == [messages |-> messages]

\* The message sequences of at most `messages` messages, each of at most
\* MaxContent Content items, holding at most `items` items in all
RECURSIVE MessageSeqs(_, _)
MessageSeqs(messages, items) ==
  { << >> } \cup
  IF messages = 0 THEN {}
  ELSE UNION { { << m >> \o rest : m \in MessagesOfSize(n),
                                  rest \in MessageSeqs(messages - 1, items - n) } :
               n \in 1..(IF items < MaxContent THEN items ELSE MaxContent) }

Conversations ==
  { Conversation(ms) : ms \in MessageSeqs(MaxMessages, MaxItems) }

\* init_conv(add_init_image): the conversation the UI starts from
init_conv(add_init_image) ==
  Conversation(<< [role |-> "user",
                   content |-> IF add_init_image
                               THEN << ContentTextMessage("Hello!"), ContentImageMessage(<<1>>) >>
                               ELSE << ContentTextMessage("Hello!") >>] >>)

\* The conversations the callers of generate_response pass in the dispatch
\* and retry specification.
SampleConversations ==
  { init_conv(FALSE), init_conv(TRUE),
    Conversation(<< [role |-> "user", content |-> << ContentImageMessage(<<2>>) >>],
                    [role |-> "assistant", content |-> << ContentTextMessage("Hi") >>] >>) }

\* ------------------------------------------------------------------------
\* Image codec (files.py)
\* ------------------------------------------------------------------------
\* JPEG compression is lossy: the low bit of every pixel is lost.
JpegQuantise(pixel) == (pixel \div 2) * 2

\* image.save(buffered, format="JPEG"): the SOI marker, then the pixels
JpegSave(image) ==
  << 255, 216 >> \o [i \in 1..Len(image) |-> JpegQuantise(image[i])]

\* base64.b64encode(...).decode("utf-8"): an injective text encoding of bytes
b64encode(bytes) ==
  [i \in 1..Len(bytes) |-> ToString(bytes[i])]

\* files.pil_to_base64
pil_to_base64(image) ==
  b64encode(JpegSave(image))

\* ------------------------------------------------------------------------
\* Wire-format conversions
\* ------------------------------------------------------------------------
\* Concatenation of a sequence of sequences
RECURSIVE Concat(_)
Concat(seqs) ==
  IF seqs = << >> THEN << >> ELSE Head(seqs) \o Concat(Tail(seqs))

\* The block CommonLLMChat._convert_conv_to_api_format appends for one content
CommonBlock(role, content) ==
  IF content.type = "text"
  THEN << [role |-> role, content |-> << [type |-> "text", text |-> content.text] >>] >>
  ELSE << [role |-> role,
           content |-> << [type |-> "image_url",
                           image_url |-> [url |-> << "data:image/jpeg;base64," >>
                                                    \o pil_to_base64(content.image)]] >>] >>

\* Variant: one block per message, its content entries merged
CommonConvertMerged(conv) ==
  [m \in 1..Len(conv.messages) |->
     [role |-> conv.messages[m].role,
      content |-> Concat([k \in 1..Len(conv.messages[m].content) |->
                            CommonBlock(conv.messages[m].role,
                                        conv.messages[m].content[k])[1].content])]]

\* CommonLLMChat._convert_conv_to_api_format: for message, for content, append
CommonConvert(conv) ==
  Concat([m \in 1..Len(conv.messages) |->
            Concat([k \in 1..Len(conv.messages[m].content) |->
                      CommonBlock(conv.messages[m].role, conv.messages[m].content[k])])])

\* Variant: the role copied without the assistant -> model mapping
GeminiBlockSameRole(role, content) ==
  IF content.type = "text"
  THEN << [role |-> role, parts |-> content.text] >>
  ELSE << >>

\* The entry GeminiChat._convert_conv_to_api_format appends for one content
GeminiBlock(role, content) ==
  IF content.type = "text"
  THEN << [role |-> IF role = "assistant" THEN "model" ELSE role,
           parts |-> content.text] >>
  ELSE << >>

\* GeminiChat._convert_conv_to_api_format
GeminiConvert(conv) ==
  Concat([m \in 1..Len(conv.messages) |->
            Concat([k \in 1..Len(conv.messages[m].content) |->
                      GeminiBlock(conv.messages[m].role, conv.messages[m].content[k])])])

\* Variant: an entry with empty content for an image item
OllamaBlockKeepsImages(role, content) ==
  IF content.type = "text"
  THEN << [role |-> role, content |-> content.text] >>
  ELSE << [role |-> role, content |-> ""] >>

\* The entry OllamaChat._convert_conv_to_api_format appends for one content
OllamaBlock(role, content) ==
  IF content.type = "text"
  THEN << [role |-> role, content |-> content.text] >>
  ELSE << >>

\* OllamaChat._convert_conv_to_api_format
OllamaConvert(conv) ==
  Concat([m \in 1..Len(conv.messages) |->
            Concat([k \in 1..Len(conv.messages[m].content) |->
                      OllamaBlock(conv.messages[m].role, conv.messages[m].content[k])])])

\* self._convert_conv_to_api_format(conv), by the class of self
ConvertConvToApiFormat(cls, conv) ==
  CASE cls = "Gemini" -> GeminiConvert(conv)
    [] cls = "Ollama" -> OllamaConvert(conv)
    [] OTHER -> CommonConvert(conv)

\* ------------------------------------------------------------------------
\* Backend requests
\* ------------------------------------------------------------------------
\* s[n:]
DropPrefix(s, n) ==
  SubSeq(s, n + 1, Len(s))

\* str.lstrip(chars): leading characters that occur in chars are removed
RECURSIVE LStrip(_, _)
LStrip(s, chars) ==
  IF s # << >> /\ InList(Head(s), chars) THEN LStrip(Tail(s), chars) ELSE s

\* Variant: the prefix removed with lstrip, as TogetherChat._call_api of
\* llm.py does
ApiModelNameLStrip(adapter) ==
  CASE adapter.family = "Together" -> LStrip(adapter.model_name, TogetherPrefix)
    [] adapter.family = "Ollama" -> LStrip(adapter.model_name, OllamaPrefix)
    [] OTHER -> adapter.model_name

\* The model argument of the backend call in _call_api
ApiModelName(adapter) ==
  CASE adapter.family = "Together" -> DropPrefix(adapter.model_name, Len(TogetherPrefix))
    [] adapter.family = "Ollama" -> DropPrefix(adapter.model_name, Len(OllamaPrefix))
    [] OTHER -> adapter.model_name

\* Variant: the temperature floor applied inside the adapter's call
CallApiRequestFloored(adapter, messages_api_format) ==
  [model |-> ApiModelName(adapter), messages |-> messages_api_format,
   temperature |-> IF adapter.temperature < TemperatureFloor
                   THEN TemperatureFloor ELSE adapter.temperature,
   images |-> << >>]

\* The request _call_api sends to the client
CallApiRequest(adapter, messages_api_format) ==
  [model |-> ApiModelName(adapter), messages |-> messages_api_format,
   temperature |-> adapter.temperature, images |-> << >>]

\* Variant: only the images of the latest message
HFImagesLatestMessage(conv) ==
  IF conv.messages = << >> THEN << >>
  ELSE LET last == conv.messages[Len(conv.messages)]
       IN Concat([k \in 1..Len(last.content) |->
                    IF last.content[k].type = "image"
                    THEN << last.content[k].image >>
                    ELSE << >>])

\* HFLlamaChat.generate_response: the images of every message, in order
HFImages(conv) ==
  Concat([m \in 1..Len(conv.messages) |->
            Concat([k \in 1..Len(conv.messages[m].content) |->
                      IF conv.messages[m].content[k].type = "image"
                      THEN << conv.messages[m].content[k].image >>
                      ELSE << >>])])

\* The inputs HFLlamaChat.generate_response gives to processor and model.generate
HFRequest(adapter, conv) ==
  [model |-> adapter.model_name, messages |-> conv.messages,
   temperature |-> adapter.temperature, images |-> HFImages(conv)]

NoRequest ==
  [model |-> << >>, messages |-> << >>, temperature |-> 0, images |-> << >>]

\* What a backend answers
Responses == {"Sure.", "Done."}

\* ------------------------------------------------------------------------
\* State
\* ------------------------------------------------------------------------
VARIABLES
  llm,          \* the adapter the last get_llm / constructor call returned
  model_kwargs, \* the caller's model_kwargs dict after that call
  call,         \* that call: operation, arguments, routed family
  error,        \* the exception that call raised, "none" if it returned
  effects,      \* credential reads and client constructions of that call
  pc,           \* position of the current generate_response call
  conv,         \* the conversation given to generate_response
  attempts,     \* invocations of the underlying call made so far
  trace,        \* the calls and sleeps of this generate_response, in order
  request,      \* the last request sent to the backend
  result,       \* the string generate_response returned
  exc,          \* the exception generate_response raised
  formatted,    \* the last output of a conversion applied on its own
  file,         \* the JSON document save_to_path wrote
  loaded,       \* the ChatSession load_from_path returned
  calls,        \* the locals of each concurrent generate_response call
  decoded       \* the output of the local runtime, decoded to text

vars ==
  << llm, model_kwargs, call, error, effects, pc, conv, attempts, trace,
     request, result, exc, formatted, file, loaded, calls, decoded >>

dispatchVars == << llm, model_kwargs, call, error, effects >>

generateVars == << pc, conv, attempts, trace, request, result, exc >>

otherVars == << file, loaded, calls, decoded >>

NoCall ==
  [op |-> "none", model_name |-> << >>, kwargs |-> NoKwargs,
   family |-> "None", ctor_kwargs |-> NoKwargs]

NoFormatted == [kind |-> "none", out |-> << >>]

NoFile == [llm_name |-> << >>, llm_kwargs |-> NoKwargs, conv |-> [messages |-> << >>]]

NoSession == [llm_name |-> << >>, llm_kwargs |-> NoKwargs, conv |-> Conversation(<< >>)]

CallIds == {1, 2}

\* The locals of a generate_response call that has not started
IdleCall ==
  [pc |-> "idle", conv |-> Conversation(<< >>), attempts |-> 0,
   result |-> << >>, exc |-> "none"]

\* Nothing saved, nothing loaded, no concurrent call, nothing decoded
OtherInit ==
  /\ file = NoFile
  /\ loaded = NoSession
  /\ calls = [i \in CallIds |-> IdleCall]
  /\ decoded = << >>

\* No generate_response call is in progress
Quiescent == {"idle", "returned", "raised"}

\* The locals of generate_response before a call
GenerateReset ==
  /\ pc' = "idle"
  /\ conv' = Conversation(<< >>)
  /\ attempts' = 0
  /\ trace' = << >>
  /\ request' = NoRequest
  /\ result' = "None"
  /\ exc' = "none"

Init ==
  /\ llm = NoAdapter
  /\ model_kwargs = NoKwargs
  /\ call = NoCall
  /\ error = "none"
  /\ effects = << >>
  /\ pc = "idle"
  /\ conv = Conversation(<< >>)
  /\ attempts = 0
  /\ trace = << >>
  /\ request = NoRequest
  /\ result = "None"
  /\ exc = "none"
  /\ formatted = NoFormatted
  /\ OtherInit

\* ------------------------------------------------------------------------
\* Operations
\* ------------------------------------------------------------------------
\* llm = get_llm(model_name, model_kwargs)
GetLLM(name, kw) ==
  /\ pc \in Quiescent
  /\ LET r == get_llm(name, kw) IN
       /\ llm' = r.out.llm
       /\ error' = r.out.err
       /\ effects' = r.out.effects
       /\ model_kwargs' = r.model_kwargs
       /\ call' = [op |-> "get_llm", model_name |-> name, kwargs |-> kw,
                   family |-> r.family, ctor_kwargs |-> r.ctor_kwargs]
  /\ GenerateReset
  /\ UNCHANGED << formatted, otherVars >>

\* llm = cls(model_name=model_name, **model_kwargs), as the UI constructs adapters
ConstructAdapter(cls, name, kw) ==
  /\ pc \in Quiescent
  /\ LET out == New(cls, name, kw) IN
       /\ llm' = out.llm
       /\ error' = out.err
       /\ effects' = out.effects
  /\ model_kwargs' = kw
  /\ call' = [op |-> "new", model_name |-> name, kwargs |-> kw,
              family |-> cls, ctor_kwargs |-> kw]
  /\ GenerateReset
  /\ UNCHANGED << formatted, otherVars >>

\* Variant: max_retries counted as retries after the first attempt
StopAfterAttemptOffByOne(attempt_number, max_attempt_number) ==
  attempt_number > max_attempt_number

\* stop_after_attempt(max_attempt_number), asked after a failed attempt
StopAfterAttempt(attempt_number, max_attempt_number) ==
  attempt_number >= max_attempt_number

\* Variant: linear backoff
WaitLinearBackoff(wait_seconds, attempt_number) ==
  wait_seconds * attempt_number

\* wait_fixed(wait_seconds): the sleep after failed attempt attempt_number
WaitFixed(wait_seconds, attempt_number) ==
  wait_seconds

\* CommonLLMChat.generate_response up to the first attempt
StartGenerate(c) ==
  /\ pc \in Quiescent
  /\ llm.family \notin {"None", "Huggingface"}
  /\ conv' = c
  /\ attempts' = 0
  /\ trace' = << >>
  /\ request' = NoRequest
  /\ result' = "None"
  /\ IF llm.client = "None"
     THEN pc' = "raised" /\ exc' = "AssertionError"
     ELSE pc' = "attempt" /\ exc' = "none"
  /\ UNCHANGED << dispatchVars, formatted, otherVars >>

\* Variant: a successful attempt appends the answer to the caller's conversation
AttemptAppendsAnswer(ok, response) ==
  /\ pc = "attempt"
  /\ attempts' = attempts + 1
  /\ trace' = Append(trace, [ev |-> "call", secs |-> 0, ok |-> ok])
  /\ request' = CallApiRequest(llm, ConvertConvToApiFormat(llm.family, conv))
  /\ IF ok
     THEN /\ pc' = "returned"
          /\ result' = response
          /\ exc' = "none"
          /\ conv' = Conversation(Append(conv.messages,
                        [role |-> "assistant",
                         content |-> << ContentTextMessage(response) >>]))
     ELSE /\ result' = "None"
          /\ conv' = conv
          /\ IF StopAfterAttempt(attempts + 1, llm.max_retries)
             THEN pc' = "raised" /\ exc' = "RetryError"
             ELSE pc' = "sleep" /\ exc' = "none"
  /\ UNCHANGED << dispatchVars, formatted, otherVars >>

\* Variant: a successful attempt before the last one is followed by a wait
\* and another attempt
AttemptGoesOnAfterSuccess(ok, response) ==
  /\ pc = "attempt"
  /\ attempts' = attempts + 1
  /\ trace' = Append(trace, [ev |-> "call", secs |-> 0, ok |-> ok])
  /\ request' = CallApiRequest(llm, ConvertConvToApiFormat(llm.family, conv))
  /\ result' = IF ok THEN response ELSE "None"
  /\ IF StopAfterAttempt(attempts + 1, llm.max_retries)
     THEN IF ok THEN pc' = "returned" /\ exc' = "none"
                ELSE pc' = "raised" /\ exc' = "RetryError"
     ELSE pc' = "sleep" /\ exc' = "none"
  /\ UNCHANGED << dispatchVars, conv, formatted, otherVars >>

\* One attempt of _call_api_wrapper under @retry: convert, call the backend;
\* a failure stops the retrying once stop_after_attempt(max_retries) holds.
Attempt(ok, response) ==
  /\ pc = "attempt"
  /\ attempts' = attempts + 1
  /\ trace' = Append(trace, [ev |-> "call", secs |-> 0, ok |-> ok])
  /\ request' = CallApiRequest(llm, ConvertConvToApiFormat(llm.family, conv))
  /\ IF ok
     THEN /\ pc' = "returned"
          /\ result' = response
          /\ exc' = "none"
     ELSE /\ result' = "None"
          /\ IF StopAfterAttempt(attempts + 1, llm.max_retries)
             THEN pc' = "raised" /\ exc' = "RetryError"
             ELSE pc' = "sleep" /\ exc' = "none"
  /\ UNCHANGED << dispatchVars, conv, formatted, otherVars >>

\* wait_fixed(wait_seconds) between two attempts
Sleep ==
  /\ pc = "sleep"
  /\ trace' = Append(trace, [ev |-> "sleep",
                              secs |-> WaitFixed(llm.wait_seconds, attempts),
                              ok |-> FALSE])
  /\ pc' = "attempt"
  /\ UNCHANGED << dispatchVars, conv, attempts, request, result, exc, formatted, otherVars >>

\* HFLlamaChat.generate_response: one call of the runtime, no retry
HFGenerateResponse(c, ok, response) ==
  /\ pc \in Quiescent
  /\ llm.family = "Huggingface"
  /\ conv' = c
  /\ attempts' = 1
  /\ trace' = << [ev |-> "call", secs |-> 0, ok |-> ok] >>
  /\ request' = HFRequest(llm, c)
  /\ IF ok
     THEN pc' = "returned" /\ result' = response /\ exc' = "none"
     ELSE pc' = "raised" /\ result' = "None" /\ exc' = "BackendError"
  /\ UNCHANGED << dispatchVars, formatted, otherVars >>

Next ==
  \/ \E name \in ModelNames, kw \in ModelKwargs : GetLLM(name, kw)
  \/ \E cls \in Families, name \in ModelNames, kw \in ModelKwargs :
       ConstructAdapter(cls, name, kw)
  \/ \E c \in SampleConversations : StartGenerate(c)
  \/ \E ok \in BOOLEAN, response \in Responses : Attempt(ok, response)
  \/ Sleep
  \/ \E c \in SampleConversations, ok \in BOOLEAN, response \in Responses :
       HFGenerateResponse(c, ok, response)

Spec == Init /\ [][Next]_vars

\* ------------------------------------------------------------------------
\* The conversions on their own, over every bounded conversation
\* ------------------------------------------------------------------------
ConvInit ==
  /\ llm = NoAdapter
  /\ model_kwargs = NoKwargs
  /\ call = NoCall
  /\ error = "none"
  /\ effects = << >>
  /\ pc = "idle"
  /\ conv \in Conversations
  /\ attempts = 0
  /\ trace = << >>
  /\ request = NoRequest
  /\ result = "None"
  /\ exc = "none"
  /\ formatted = NoFormatted
  /\ OtherInit

\* formatted = adapter._convert_conv_to_api_format(conv)
Convert(cls) ==
  /\ formatted' = [kind |-> cls, out |-> ConvertConvToApiFormat(cls, conv)]
  /\ UNCHANGED << dispatchVars, generateVars, otherVars >>

\* The first loop of HFLlamaChat.generate_response: the images handed to
\* the processor
CollectImages ==
  /\ formatted' = [kind |-> "Huggingface", out |-> HFImages(conv)]
  /\ UNCHANGED << dispatchVars, generateVars, otherVars >>

ConvNext ==
  \/ \E cls \in {"OpenAI", "Gemini", "Ollama"} : Convert(cls)
  \/ CollectImages

ConvSpec == ConvInit /\ [][ConvNext]_vars

\* ------------------------------------------------------------------------
\* The prefixed families over every bounded identifier: adapters of
\* TogetherChat and OllamaChat as they exist for any list of supported
\* names, each identifier being the family's prefix token and a remainder.
\* ------------------------------------------------------------------------
NameAlphabet == {"o", ":", "m", "3"}

\* The sequences over S of length at most n
RECURSIVE SeqsUpTo(_, _)
SeqsUpTo(S, n) ==
  IF n = 0 THEN { << >> }
  ELSE SeqsUpTo(S, n - 1) \cup { Append(s, x) : s \in [1..(n - 1) -> S], x \in S }

FamilyPrefix(cls) ==
  IF cls = "Together" THEN TogetherPrefix ELSE OllamaPrefix

PrefixedAdapters ==
  { [family |-> cls, model_name |-> FamilyPrefix(cls) \o rest,
     temperature |-> DefaultTemperature, max_retries |-> DefaultMaxRetries,
     wait_seconds |-> DefaultWaitSeconds,
     client |-> IF cls = "Together" THEN "together.Together" ELSE "ollama.Client"] :
    cls \in {"Together", "Ollama"}, rest \in SeqsUpTo(NameAlphabet, MaxRest) }

PrefixInit ==
  /\ llm \in PrefixedAdapters
  /\ model_kwargs = NoKwargs
  /\ call = NoCall
  /\ error = "none"
  /\ effects = << >>
  /\ pc = "idle"
  /\ conv = Conversation(<< >>)
  /\ attempts = 0
  /\ trace = << >>
  /\ request = NoRequest
  /\ result = "None"
  /\ exc = "none"
  /\ formatted = NoFormatted
  /\ OtherInit

PrefixNext ==
  \/ StartGenerate(init_conv(FALSE))
  \/ \E ok \in BOOLEAN : Attempt(ok, "Sure.")
  \/ Sleep

PrefixSpec == PrefixInit /\ [][PrefixNext]_vars

\* ------------------------------------------------------------------------
\* Chat sessions on disk (data.py, files.py)
\* ------------------------------------------------------------------------
ChatSession(llm_name, llm_kwargs, c) ==
  [llm_name |-> llm_name, llm_kwargs |-> llm_kwargs, conv |-> c]

\* isinstance(content, ContentImageMessage): the class that has the image field
IsImageMessage(content) == "image" \in DOMAIN content

\* The dict a Content item is serialised to: ContentImageMessage.serialize_model
\* for an image, the fields of the model for a text
DumpContent(content) ==
  IF IsImageMessage(content)
  THEN [type |-> content.type, image |-> pil_to_base64(content.image)]
  ELSE [type |-> content.type, text |-> content.text]

DumpMessage(message) ==
  [role |-> message.role,
   content |-> [j \in 1..Len(message.content) |-> DumpContent(message.content[j])]]

\* ChatSession.model_dump_json: the JSON document of the session
model_dump_json(session) ==
  [llm_name |-> session.llm_name,
   llm_kwargs |-> session.llm_kwargs,
   conv |-> [messages |-> [i \in 1..Len(session.conv.messages) |->
                             DumpMessage(session.conv.messages[i])]]]

Bytes == 0..255

\* base64.b64decode: the bytes of an encoded text
b64decode(text) ==
  [i \in 1..Len(text) |-> CHOOSE b \in Bytes : ToString(b) = text[i]]

\* Image.open of a JPEG stream: the pixels after the SOI marker
ImageOpen(bytes) == SubSeq(bytes, 3, Len(bytes))

\* files.base64_to_pil
base64_to_pil(base64_image) == ImageOpen(b64decode(base64_image))

\* The loop of load_from_path: a dict whose type is "image" gets its image
\* decoded, every other dict is left as read
DeserializeContent(content) ==
  IF content.type = "image"
  THEN [content EXCEPT !.image = base64_to_pil(content.image)]
  ELSE content

\* Variant: every dict validated as the first member of the union
ValidateContentAsText(content) ==
  [type |-> content.type,
   text |-> IF "text" \in DOMAIN content THEN content.text ELSE ""]

\* Validation of a dict against ContentTextMessage | ContentImageMessage: the
\* member whose required field the dict has
ValidateContent(content) ==
  IF "text" \in DOMAIN content
  THEN [type |-> content.type, text |-> content.text]
  ELSE [type |-> content.type, image |-> content.image]

LoadMessage(message) ==
  [role |-> message.role,
   content |-> [j \in 1..Len(message.content) |->
                  ValidateContent(DeserializeContent(message.content[j]))]]

\* ChatSession.load_from_path applied to the document read from the file
load_from_path(data) ==
  ChatSession(data.llm_name, data.llm_kwargs,
              Conversation([i \in 1..Len(data.conv.messages) |->
                              LoadMessage(data.conv.messages[i])]))

SessionNames == {Gpt4oMini, ClaudeHaiku}

SessionInit ==
  /\ llm = NoAdapter
  /\ model_kwargs = NoKwargs
  /\ call = NoCall
  /\ error = "none"
  /\ effects = << >>
  /\ pc = "idle"
  /\ conv \in Conversations
  /\ attempts = 0
  /\ trace = << >>
  /\ request = NoRequest
  /\ result = "None"
  /\ exc = "none"
  /\ formatted = NoFormatted
  /\ OtherInit

\* ChatSession(llm_name, llm_kwargs, conv).save_to_path(file_path)
SaveToPath(llm_name) ==
  /\ file' = model_dump_json(ChatSession(llm_name, NoKwargs, conv))
  /\ UNCHANGED << dispatchVars, generateVars, formatted, loaded, calls, decoded >>

\* loaded = ChatSession.load_from_path(file_path)
LoadFromPath ==
  /\ file # NoFile
  /\ loaded' = load_from_path(file)
  /\ UNCHANGED << dispatchVars, generateVars, formatted, file, calls, decoded >>

SessionNext ==
  \/ \E llm_name \in SessionNames : SaveToPath(llm_name)
  \/ LoadFromPath

SessionSpec == SessionInit /\ [][SessionNext]_vars

\* ------------------------------------------------------------------------
\* Concurrent generate_response calls on one adapter. Every call decorates
\* its own _call_api_wrapper, so the retrying state is local to the call;
\* the calls share the adapter, which they only read.
\* ------------------------------------------------------------------------
ConcAdapters ==
  { New(cls, name, kw).llm :
      cls \in {"OpenAI", "Gemini"},
      name \in {Gpt4oMini, Gemini15Flash},
      kw \in {k \in ModelKwargs : "temperature" \notin DOMAIN k} }
  \ { NoAdapter }

\* The reply of the backend, identified by the messages it answers
AnswerTo(req) == req.messages

\* Variant: one attempt count kept on the adapter for all of its calls
AttemptNumberShared(cs, i) ==
  cs[1].attempts + cs[2].attempts + 1

\* The attempt number of the retrying state of call i
AttemptNumber(cs, i) ==
  cs[i].attempts + 1

ConcInit ==
  /\ llm \in ConcAdapters
  /\ model_kwargs = NoKwargs
  /\ call = NoCall
  /\ error = "none"
  /\ effects = << >>
  /\ pc = "idle"
  /\ conv = Conversation(<< >>)
  /\ attempts = 0
  /\ trace = << >>
  /\ request = NoRequest
  /\ result = "None"
  /\ exc = "none"
  /\ formatted = NoFormatted
  /\ OtherInit

\* Call i enters generate_response with conversation c
ConcStart(i, c) ==
  /\ calls[i].pc \in Quiescent
  /\ calls' = [calls EXCEPT ![i] =
                 [pc |-> IF llm.client = "None" THEN "raised" ELSE "attempt",
                  conv |-> c, attempts |-> 0, result |-> << >>,
                  exc |-> IF llm.client = "None" THEN "AssertionError" ELSE "none"]]
  /\ UNCHANGED << dispatchVars, generateVars, formatted, file, loaded, decoded >>

\* One attempt of the _call_api_wrapper of call i
ConcAttempt(i, ok) ==
  /\ calls[i].pc = "attempt"
  /\ LET req == CallApiRequest(llm, ConvertConvToApiFormat(llm.family, calls[i].conv))
         stop == StopAfterAttempt(AttemptNumber(calls, i), llm.max_retries)
     IN calls' = [calls EXCEPT ![i] =
                    [pc |-> IF ok THEN "returned" ELSE IF stop THEN "raised" ELSE "sleep",
                     conv |-> calls[i].conv,
                     attempts |-> calls[i].attempts + 1,
                     result |-> IF ok THEN AnswerTo(req) ELSE << >>,
                     exc |-> IF ~ ok /\ stop THEN "RetryError" ELSE "none"]]
  /\ UNCHANGED << dispatchVars, generateVars, formatted, file, loaded, decoded >>

\* The wait of call i between two attempts
ConcSleep(i) ==
  /\ calls[i].pc = "sleep"
  /\ calls' = [calls EXCEPT ![i].pc = "attempt"]
  /\ UNCHANGED << dispatchVars, generateVars, formatted, file, loaded, decoded >>

ConcNext ==
  \/ \E i \in CallIds, c \in {init_conv(FALSE), init_conv(TRUE)} : ConcStart(i, c)
  \/ \E i \in CallIds, ok \in BOOLEAN : ConcAttempt(i, ok)
  \/ \E i \in CallIds : ConcSleep(i)

ConcSpec == ConcInit /\ [][ConcNext]_vars

\* ------------------------------------------------------------------------
\* The answer of the local runtime (hf.py): the decoded output is the chat
\* template of the whole conversation followed by the generated text.
\* ------------------------------------------------------------------------
\* "assistant<|end_header_id|>"
AssistantHeader ==
  <<"a","s","s","i","s","t","a","n","t","<","|","e","n","d","_","h","e","a","d","e","r","_","i","d","|",">">>

\* "<|eot_id|>"
EotMarker ==
  <<"<","|","e","o","t","_","i","d","|",">">>

\* "user<|end_header_id|>"
UserHeader ==
  <<"u","s","e","r","<","|","e","n","d","_","h","e","a","d","e","r","_","i","d","|",">">>

Whitespace == {" ", "\n"}

\* decoded_output.split(sep)[-1]: what follows the last occurrence of sep,
\* the whole text when sep does not occur
LastSegment(s, sep) ==
  LET starts == {k \in 1..(Len(s) - Len(sep) + 1) :
                   SubSeq(s, k, k + Len(sep) - 1) = sep}
  IN IF starts = {} THEN s
     ELSE LET last == CHOOSE k \in starts : \A o \in starts : o <= k
          IN SubSeq(s, last + Len(sep), Len(s))

\* str.rstrip(chars): trailing characters that occur in chars are removed
RECURSIVE RStrip(_, _)
RStrip(s, chars) ==
  IF s # << >> /\ InList(s[Len(s)], chars)
  THEN RStrip(SubSeq(s, 1, Len(s) - 1), chars)
  ELSE s

\* str.strip(): whitespace removed at both ends
RECURSIVE Strip(_)
Strip(s) ==
  IF s = << >> THEN s
  ELSE IF Head(s) \in Whitespace THEN Strip(Tail(s))
  ELSE IF s[Len(s)] \in Whitespace THEN Strip(SubSeq(s, 1, Len(s) - 1))
  ELSE s

\* The last lines of HFLlamaChat.generate_response
LatestAssistantMessage(decoded_output) ==
  RStrip(Strip(LastSegment(decoded_output, AssistantHeader)), EotMarker)

\* s without one occurrence of suffix at its end
RemoveSuffix(s, suffix) ==
  IF Len(s) >= Len(suffix) /\ SubSeq(s, Len(s) - Len(suffix) + 1, Len(s)) = suffix
  THEN SubSeq(s, 1, Len(s) - Len(suffix))
  ELSE s

BodyAlphabet == {"H", "d", " "}

\* The texts the runtime generates
Bodies == SeqsUpTo(BodyAlphabet, MaxBody)

\* The earlier turns of the template
Prompts ==
  { UserHeader \o << "\n", "\n", "H" >> \o EotMarker,
    UserHeader \o << "\n", "\n", "H" >> \o EotMarker
      \o AssistantHeader \o << "\n", "\n", "d" >> \o EotMarker
      \o UserHeader \o << "\n", "\n", "H" >> \o EotMarker }

DecodedOutputs ==
  { prompt \o AssistantHeader \o << "\n", "\n" >> \o body \o tail :
      prompt \in Prompts, body \in Bodies, tail \in {EotMarker, << >>} }

DecodeInit ==
  /\ llm = HFLlamaChatInit("Huggingface", Llama32_11BVision, NoKwargs).llm
  /\ model_kwargs = NoKwargs
  /\ call = NoCall
  /\ error = "none"
  /\ effects = << >>
  /\ pc = "idle"
  /\ conv = Conversation(<< >>)
  /\ attempts = 0
  /\ trace = << >>
  /\ request = NoRequest
  /\ result = "None"
  /\ exc = "none"
  /\ formatted = NoFormatted
  /\ file = NoFile
  /\ loaded = NoSession
  /\ calls = [i \in CallIds |-> IdleCall]
  /\ decoded \in DecodedOutputs

\* The end of HFLlamaChat.generate_response, from the decoded output on
Decode ==
  /\ pc = "idle"
  /\ result' = LatestAssistantMessage(decoded)
  /\ pc' = "returned"
  /\ UNCHANGED << dispatchVars, conv, attempts, trace, request, exc, formatted,
                  file, loaded, calls, decoded >>

DecodeNext == Decode

DecodeSpec == DecodeInit /\ [][DecodeNext]_vars

\* ------------------------------------------------------------------------
\* Properties
\* ------------------------------------------------------------------------
\* The adapter in llm retries through CommonLLMChat.generate_response
RetryingAdapter ==
  llm.family \notin {"None", "Huggingface"}

\* The outcomes of the invocations of the underlying call, in order
CallOutcomes ==
  SelectSeq(trace, LAMBDA e : e.ev = "call")

AllCallsFailed ==
  \A i \in 1..Len(CallOutcomes) : ~ CallOutcomes[i].ok

\* C1: with max_retries = N >= 1, one generate_response call invokes the
\* underlying call at most N times; while every invocation has failed and
\* fewer than N were made the wrapper is still retrying, and once N have
\* failed it has raised the exhaustion error (RetryError) and returned no
\* string.
C1_BoundedAttempts ==
  (RetryingAdapter /\ llm.max_retries >= 1) =>
    /\ attempts <= llm.max_retries
    /\ Len(CallOutcomes) = attempts
    /\ (attempts >= 1 /\ AllCallsFailed) =>
         /\ result = "None"
         /\ IF attempts < llm.max_retries
            THEN pc \in {"attempt", "sleep"} /\ exc = "none"
            ELSE pc = "raised" /\ exc = "RetryError"
    /\ (pc = "raised") => (exc = "RetryError" /\ attempts = llm.max_retries /\ AllCallsFailed)

C1_Witness ==
  /\ RetryingAdapter
  /\ llm.max_retries = 2
  /\ pc = "raised"
  /\ exc = "RetryError"
  /\ attempts = 2
  /\ AllCallsFailed

\* C2: the trace of one generate_response call alternates call, sleep, call,
\* ...: it starts with a call, every sleep lasts wait_seconds, and a finished
\* call ends with a call (no sleep after the last attempt).
C2_FixedWaitBetweenAttempts ==
  RetryingAdapter =>
    /\ \A i \in 1..Len(trace) :
         IF i % 2 = 1
         THEN trace[i].ev = "call"
         ELSE trace[i].ev = "sleep" /\ trace[i].secs = llm.wait_seconds
    /\ (pc \in {"returned", "raised"}) => (Len(trace) % 2 = 1)
    /\ (pc = "sleep") => (Len(trace) % 2 = 1)
    /\ (pc = "attempt") => (Len(trace) % 2 = 0)

C2_Witness ==
  /\ RetryingAdapter
  /\ llm.wait_seconds = 1
  /\ pc = "raised"
  /\ Len(trace) = 5
  /\ trace[2].ev = "sleep" /\ trace[2].secs = 1
  /\ trace[4].ev = "sleep" /\ trace[4].secs = 1

\* The families get_llm tests, in the order of its case clauses
DeclaredOrder ==
  << "Anthropic", "Gemini", "Huggingface", "Ollama", "OpenAI", "Together" >>

\* The test the case clause of a family applies to the identifier
RoutingTest(cls, model_name) ==
  IF cls = "Ollama"
  THEN is_ollama_model(model_name)
  ELSE InList(model_name, SUPPORTED_LLM_NAMES(cls))

\* The positions in DeclaredOrder of the families that accept model_name
Accepting(model_name) ==
  { i \in 1..Len(DeclaredOrder) : RoutingTest(DeclaredOrder[i], model_name) }

FirstAccepting(model_name) ==
  DeclaredOrder[CHOOSE i \in Accepting(model_name) :
                  \A j \in Accepting(model_name) : i <= j]

\* C3: for an identifier that no adapter family recognizes, get_llm fails
\* with the unsupported-model error (ValueError), constructs no adapter and
\* performs no credential read or client construction.
C3_UnsupportedModelError ==
  (/\ call.op = "get_llm"
   /\ \A i \in 1..Len(DeclaredOrder) :
        /\ ~ RoutingTest(DeclaredOrder[i], call.model_name)
        /\ ~ SupportTest(DeclaredOrder[i], call.model_name))
  => (/\ error = "ValueError"
      /\ call.family = "None"
      /\ llm = NoAdapter
      /\ effects = << >>)

\* C4: get_llm constructs the adapter of the first family, in the declared
\* order, whose test accepts the identifier, and of no family when none
\* accepts it.
C4_FirstMatchConstructed ==
  (call.op = "get_llm") =>
    IF Accepting(call.model_name) = {}
    THEN call.family = "None"
    ELSE call.family = FirstAccepting(call.model_name)

\* C5: when a family's constructor is called (by get_llm or directly) with
\* an identifier that the family's support test accepts, the model-name
\* assertions of the constructor do not reject the identifier.
C5_AcceptedNameConstructs ==
  (/\ call.op \in {"get_llm", "new"}
   /\ call.family # "None"
   /\ SupportTest(call.family, call.model_name))
  => error # "AssertionError"

\* The identifier is outside the supported set of the family
Unsupported(cls, model_name) ==
  \/ ~ SupportTest(cls, model_name)
  \/ ~ InList(model_name, SUPPORTED_LLM_NAMES(cls))

\* C6: a constructor called with a model name outside the family's supported
\* set fails before any credential is read or any client is created, and
\* every adapter instance has a supported model_name.
C6_UnsupportedFailsFast ==
  /\ (call.family # "None" /\ Unsupported(call.family, call.model_name)) =>
       (/\ error # "none"
        /\ llm = NoAdapter
        /\ effects = << >>)
  /\ (llm # NoAdapter) =>
       (/\ ~ Unsupported(llm.family, llm.model_name)
        /\ llm.model_name = call.model_name)

C6_Witness ==
  /\ call.op = "new"
  /\ call.family = "Together"
  /\ call.model_name = TogetherUnlisted
  /\ DOMAIN call.kwargs = {}
  /\ error = "AssertionError"
  /\ llm = NoAdapter
  /\ effects = << >>

\* get_llm called the local-runtime constructor with a requested temperature
LocalRouted ==
  /\ call.op = "get_llm"
  /\ call.family = "Huggingface"
  /\ "temperature" \in DOMAIN call.kwargs

\* C7 as stated: routed to the local runtime, a requested temperature of 0
\* reaches the adapter as 0.01 and every requested temperature greater than
\* 0 reaches it unchanged.
C7_PositivePassedThrough ==
  LocalRouted =>
    /\ "temperature" \in DOMAIN call.ctor_kwargs
    /\ (call.kwargs.temperature = 0) => (call.ctor_kwargs.temperature = TemperatureFloor)
    /\ (call.kwargs.temperature > 0) => (call.ctor_kwargs.temperature = call.kwargs.temperature)

\* C7 amended: routed to the local runtime, a requested temperature below
\* 0.01 (0 included) reaches the adapter as 0.01, and a requested temperature
\* of 0.01 or more reaches it unchanged; the constructed adapter holds the
\* value that reached it.
C7_FlooredToOneHundredth ==
  LocalRouted =>
    /\ "temperature" \in DOMAIN call.ctor_kwargs
    /\ (call.kwargs.temperature < TemperatureFloor) =>
         (call.ctor_kwargs.temperature = TemperatureFloor)
    /\ (call.kwargs.temperature >= TemperatureFloor) =>
         (call.ctor_kwargs.temperature = call.kwargs.temperature)
    /\ (llm # NoAdapter) => (llm.temperature = call.ctor_kwargs.temperature)

C7_Witness ==
  /\ LocalRouted
  /\ call.kwargs.temperature = 0
  /\ call.ctor_kwargs.temperature = TemperatureFloor
  /\ llm.family = "Huggingface"
  /\ llm.temperature = TemperatureFloor

\* C8: an adapter holds the temperature its constructor was given for as
\* long as it exists; for every family but the local runtime that is the
\* temperature the caller gave, and it is the temperature of every backend
\* request; the local runtime sends the temperature it was constructed with.
C8_TemperatureUnchanged ==
  (llm # NoAdapter) =>
    /\ llm.temperature = Get(call.ctor_kwargs, "temperature", DefaultTemperature)
    /\ (llm.family # "Huggingface") =>
         (llm.temperature = Get(call.kwargs, "temperature", DefaultTemperature))
    /\ (request # NoRequest) => (request.temperature = llm.temperature)

C8_Witness ==
  /\ call.op = "get_llm"
  /\ llm.family = "Gemini"
  /\ "temperature" \in DOMAIN call.kwargs
  /\ call.kwargs.temperature = 5
  /\ pc = "returned"
  /\ request.temperature = 5

\* The positions <<message, content>> of the Content items of a conversation
Positions(c) ==
  UNION { { <<m, k>> : k \in 1..Len(c.messages[m].content) } :
          m \in 1..Len(c.messages) }

ItemAt(c, p) == c.messages[p[1]].content[p[2]]

RoleAt(c, p) == c.messages[p[1]].role

\* Message order, then content order within a message
Before(p, q) ==
  \/ p[1] < q[1]
  \/ (p[1] = q[1] /\ p[2] < q[2])

\* The 1-based rank of position p among the positions P
Rank(P, p) ==
  Cardinality({ q \in P : Before(q, p) }) + 1

TextPositions(c) ==
  { p \in Positions(c) : ItemAt(c, p).type = "text" }

\* C9: the common-block conversion outputs exactly one block per Content
\* item, in message order and then content order: the block of an item has
\* the role of the item's message and a single content entry, of type text
\* with the item's text, or of type image_url with the
\* data:image/jpeg;base64 URL of the item's image.  The user message
\* [text "Hello!", image] yields two user blocks, text then image.
C9_OneBlockPerContent ==
  (formatted.kind = "OpenAI") =>
    LET P == Positions(conv)
        out == formatted.out
    IN /\ Len(out) = Cardinality(P)
       /\ \A p \in P :
            LET item == ItemAt(conv, p)
                block == out[Rank(P, p)]
            IN IF item.type = "text"
               THEN block = [role |-> RoleAt(conv, p),
                             content |-> << [type |-> "text", text |-> item.text] >>]
               ELSE /\ block.role = RoleAt(conv, p)
                    /\ Len(block.content) = 1
                    /\ block.content[1].type = "image_url"
                    /\ Head(block.content[1].image_url.url) = "data:image/jpeg;base64,"
                    /\ Tail(block.content[1].image_url.url) = pil_to_base64(item.image)
       /\ (conv = init_conv(TRUE)) =>
            /\ Len(out) = 2
            /\ out[1] = [role |-> "user",
                         content |-> << [type |-> "text", text |-> "Hello!"] >>]
            /\ out[2].role = "user"
            /\ out[2].content[1].type = "image_url"

C9_Witness ==
  /\ formatted.kind = "OpenAI"
  /\ conv = init_conv(TRUE)
  /\ Len(formatted.out) = 2
  /\ formatted.out[2].content[1].type = "image_url"

\* C10: in the Gemini conversion the entry of every text item of an
\* assistant message has role "model", the entry of every text item of a
\* user message has role "user", and the entry's parts is the item's text.
C10_GeminiRoles ==
  (formatted.kind = "Gemini") =>
    LET T == TextPositions(conv)
        out == formatted.out
    IN \A p \in T :
         /\ Rank(T, p) <= Len(out)
         /\ out[Rank(T, p)].parts = ItemAt(conv, p).text
         /\ (RoleAt(conv, p) = "assistant") => (out[Rank(T, p)].role = "model")
         /\ (RoleAt(conv, p) = "user") => (out[Rank(T, p)].role = "user")

C10_Witness ==
  /\ formatted.kind = "Gemini"
  /\ Len(conv.messages) = 2
  /\ conv.messages[1].role = "user"
  /\ conv.messages[2].role = "assistant"
  /\ ItemAt(conv, <<2, 1>>).type = "text"
  /\ Len(formatted.out) >= 1
  /\ formatted.out[Len(formatted.out)].role = "model"

\* The text carried by an entry of the Gemini or Ollama format
EntryText(kind, entry) ==
  IF kind = "Gemini" THEN entry.parts ELSE entry.content

\* C11: the Gemini and Ollama conversions produce exactly one entry per text
\* Content item, in conversation order, and nothing for image items: the
\* number of entries is the number of text items, the entry of the j-th text
\* item carries its text, and a conversation of images only converts to the
\* empty list.
C11_TextItemsOnly ==
  (formatted.kind \in {"Gemini", "Ollama"}) =>
    LET T == TextPositions(conv)
        out == formatted.out
    IN /\ Len(out) = Cardinality(T)
       /\ \A p \in T : EntryText(formatted.kind, out[Rank(T, p)]) = ItemAt(conv, p).text
       /\ (T = {}) => (out = << >>)

C11_Witness ==
  /\ formatted.kind = "Ollama"
  /\ Len(conv.messages) = 2
  /\ TextPositions(conv) = {}
  /\ Cardinality(Positions(conv)) = 3
  /\ formatted.out = << >>

\* A step that is a whole HFLlamaChat.generate_response call
HFStep ==
  /\ pc \in Quiescent
  /\ llm.family = "Huggingface"
  /\ llm' = llm
  /\ attempts' = 1

\* C12: no step of a generate_response call changes the conversation it was
\* given: from the first attempt to the return or the exhaustion error, over
\* failed attempts and sleeps, conv stays what the caller passed, and the
\* local runtime leaves the conversation as it rendered it.
C12_ConversationUnchanged ==
  [][ /\ (pc \in {"attempt", "sleep"}) => (conv' = conv)
      /\ HFStep => (conv'.messages = request'.messages) ]_vars

C12_Witness ==
  /\ RetryingAdapter
  /\ pc = "returned"
  /\ attempts = 3
  /\ conv = init_conv(TRUE)
  /\ request.messages = CommonConvert(init_conv(TRUE))

\* C13: for an identifier that begins with the prefix token of its backend
\* ("together:" or "ollama:"), every attempt sends as model the identifier
\* with that token removed once, so that the token followed by the model
\* sent is the identifier again, and leaves the adapter and its model_name
\* unchanged.
C13_PrefixRemovedOnce ==
  [][ (/\ llm.family \in {"Together", "Ollama"}
       /\ StartsWith(llm.model_name, FamilyPrefix(llm.family))
       /\ attempts' = attempts + 1)
      => (/\ FamilyPrefix(llm.family) \o request'.model = llm.model_name
          /\ llm' = llm) ]_vars

C13_Witness ==
  /\ llm.family = "Ollama"
  /\ llm.model_name = OllamaPrefix \o << "o", "m", "3" >>
  /\ pc = "returned"
  /\ request.model = << "o", "m", "3" >>

\* C14: for every adapter family, the local multimodal runtime included, a
\* failed backend call on an attempt before the last one is followed by
\* another attempt: while every invocation of a generate_response call has
\* failed and fewer than max_retries were made, the caller has no error.
C14_RetryEveryFamily ==
  (/\ llm.family # "None"
   /\ Len(CallOutcomes) >= 1
   /\ AllCallsFailed
   /\ Len(CallOutcomes) < llm.max_retries)
  => (pc # "raised")

\* C15: a session saved and loaded back holds a conversation with the same
\* number of messages, the same role for each message, the same number of
\* content items in each message, the same variant (text or image) for
\* every item and the same text for every text item, all in the original
\* order.
C15_SaveLoadRoundTrip ==
  (loaded # NoSession) =>
    LET a == conv.messages
        b == loaded.conv.messages
    IN /\ Len(b) = Len(a)
       /\ \A i \in 1..Len(a) :
            /\ b[i].role = a[i].role
            /\ Len(b[i].content) = Len(a[i].content)
            /\ \A j \in 1..Len(a[i].content) :
                 /\ b[i].content[j].type = a[i].content[j].type
                 /\ IsImageMessage(b[i].content[j]) = IsImageMessage(a[i].content[j])
                 /\ (~ IsImageMessage(a[i].content[j]))
                      => (b[i].content[j].text = a[i].content[j].text)

C15_Witness ==
  /\ loaded # NoSession
  /\ Len(conv.messages) = 2
  /\ conv.messages[1].role # conv.messages[2].role
  /\ \E p \in Positions(conv) : IsImageMessage(ItemAt(conv, p))
  /\ TextPositions(conv) # {}
  /\ loaded.conv # conv

\* C16: with two generate_response calls interleaved on one adapter, a step
\* of one call leaves the attempt count, position and result of the other
\* unchanged; a call gives up only after max_retries attempts of its own,
\* goes on retrying while it has made fewer, and a call that returns
\* returns the reply to the conversion of its own conversation.
C16_CallsIndependent ==
  [][ \A i \in CallIds :
        /\ (calls'[i] # calls[i]) =>
             (\A j \in CallIds \ {i} : calls'[j] = calls[j])
        /\ (calls'[i].exc = "RetryError") =>
             (calls'[i].attempts = llm.max_retries)
        /\ (calls'[i].pc \in {"attempt", "sleep"}) =>
             (calls'[i].attempts < llm.max_retries)
        /\ (calls'[i].pc = "returned") =>
             /\ calls'[i].attempts \in 1..llm.max_retries
             /\ calls'[i].result =
                  ConvertConvToApiFormat(llm.family, calls'[i].conv) ]_vars

C16_Witness ==
  /\ llm.max_retries = 3
  /\ calls[1].pc = "returned"
  /\ calls[1].attempts = 2
  /\ calls[1].conv = init_conv(TRUE)
  /\ calls[2].pc = "raised"
  /\ calls[2].attempts = 3
  /\ calls[2].conv = init_conv(FALSE)
  /\ calls[1].result # << >>

\* C17: the local-runtime adapter returns the last assistant segment of
\* the decoded output with only the end-of-turn marker and the whitespace
\* around it removed; every other character of the segment is returned,
\* also when the text ends in characters that occur in the marker.
C17_OnlyMarkerRemoved ==
  (pc = "returned" /\ decoded # << >>) =>
    (result = Strip(RemoveSuffix(Strip(LastSegment(decoded, AssistantHeader)),
                                 EotMarker)))

ImagePositions(c) ==
  {p \in Positions(c) : IsImageMessage(ItemAt(c, p))}

\* C18: the image list the local-runtime adapter gives to the runtime is
\* the sequence of all image Content items of all messages of the
\* conversation, in message order and then content order: as many entries
\* as the conversation has image items, earlier turns included, and none
\* for a text item.
C18_AllImagesInOrder ==
  (formatted.kind = "Huggingface") =>
    LET I == ImagePositions(conv)
        out == formatted.out
    IN /\ Len(out) = Cardinality(I)
       /\ \A p \in I : out[Rank(I, p)] = ItemAt(conv, p).image

C18_Witness ==
  /\ formatted.kind = "Huggingface"
  /\ Len(conv.messages) = 2
  /\ conv.messages[1].content = << ContentImageMessage(<<1>>), ContentTextMessage("Hi") >>
  /\ conv.messages[2].content = << ContentImageMessage(<<2>>) >>
  /\ formatted.out = << <<1>>, <<2>> >>

FailedCalls ==
  Len(SelectSeq(trace, LAMBDA e : e.ev = "call" /\ ~ e.ok))

Sleeps ==
  Len(SelectSeq(trace, LAMBDA e : e.ev = "sleep"))

\* C19: within one generate_response call nothing follows a successful
\* attempt: the wrapper returns that attempt's result with no further
\* attempt and no further wait, so a call that fails k < max_retries times
\* and then succeeds has made exactly k + 1 invocations and k waits; every
\* attempt sends the request converted from the conversation anew, and a
\* failed attempt leaves no result behind.
C19_SuccessStopsRetrying ==
  RetryingAdapter =>
    /\ \A i \in 1..(Len(trace) - 1) : ~ (trace[i].ev = "call" /\ trace[i].ok)
    /\ (pc = "returned") <=>
         (trace # << >> /\ trace[Len(trace)].ev = "call" /\ trace[Len(trace)].ok)
    /\ (pc = "returned") =>
         /\ result \in Responses
         /\ FailedCalls < llm.max_retries
         /\ attempts = FailedCalls + 1
         /\ Len(CallOutcomes) = FailedCalls + 1
         /\ Sleeps = FailedCalls
    /\ (pc # "returned") => (result = "None")
    /\ (attempts >= 1) =>
         (request = CallApiRequest(llm, ConvertConvToApiFormat(llm.family, conv)))

C19_Witness ==
  /\ RetryingAdapter
  /\ llm.max_retries = 3
  /\ pc = "returned"
  /\ FailedCalls = 2
  /\ attempts = 3
  /\ Len(trace) = 5
  /\ result = "Done."

\* C20: get_llm leaves the caller's model_kwargs with the keys it had, adds
\* no "temperature" entry, changes no entry other than "temperature", and
\* changes that one only when the identifier is routed to the local
\* runtime; for every other family, and when get_llm raises because no
\* family took the identifier, the mapping is exactly what the caller
\* passed.
C20_OnlyTemperatureChanged ==
  (call.op = "get_llm") =>
    /\ DOMAIN model_kwargs = DOMAIN call.kwargs
    /\ \A k \in DOMAIN call.kwargs \ {"temperature"} : model_kwargs[k] = call.kwargs[k]
    /\ (call.family # "Huggingface") => (model_kwargs = call.kwargs)
    /\ (call.family = "None") => (error # "none" /\ model_kwargs = call.kwargs)

C20_Witness ==
  /\ call.op = "get_llm"
  /\ call.family = "Huggingface"
  /\ DOMAIN call.kwargs = {"temperature", "max_retries"}
  /\ call.kwargs.temperature = 0
  /\ model_kwargs.temperature = TemperatureFloor
  /\ model_kwargs.max_retries = call.kwargs.max_retries

====
